---- MODULE Spec2Model ----
(***************************************************************************)
(* A model of the simplecoder agent: the permission gate                   *)
(* (permissions.py), the context window manager (context.py), the tool     *)
(* dispatcher (tools.py), the task planner (planner.py) and the ReAct loop *)
(* (agent.py).                                                             *)
(*                                                                         *)
(* The specifications share the definitions:                               *)
(*   Spec      an Agent run: _execute_subtask driven by a scripted model,  *)
(*             a user answering the permission prompts and a filesystem;   *)
(*   SpecLong  a run of many iterations, in which compaction sets in;      *)
(*   SpecPlan  a run with or without planning, subtask after subtask;      *)
(*   SpecTools execute_tool under any sequence of calls;                   *)
(*   SpecPlanner a TaskPlanner under any sequence of calls;                *)
(*   SpecGate  a PermissionManager under any sequence of calls;            *)
(*   SpecCtx   a ContextManager applied to bounded conversations.          *)
(***************************************************************************)
EXTENDS Integers, Sequences, FiniteSets, TLC

VARIABLES
    \* PermissionManager (permissions.py)
    auto_approve,          \* self.auto_approve
    session_permissions,   \* self.session_permissions: kind -> bool
    gate_log,              \* history: the calls made on the gate, in order
    \* ContextManager (context.py)
    max_tokens,            \* self.max_tokens
    keep_last_n,           \* self.keep_last_n
    \* Agent (agent.py)
    messages,              \* self.messages
    max_iterations,        \* self.max_iterations
    pc,                    \* where the run is: "idle", "planned", "loop", "returned",
                           \* "raised", "done"
    iteration,             \* iterations of the ReAct loop begun so far
    result,                \* the value _execute_subtask returned / the error raised
    fs,                    \* the filesystem: path -> file content
    llm_calls,             \* history: calls of completion() made by _call_llm
    dispatches,            \* history: calls of execute_tool made
    last_response,         \* history: what the latest _call_llm returned
    last_dispatch,         \* history: the latest execute_tool call and its effects
    \* planning (agent.py run, planner.py)
    use_planning,          \* self.use_planning
    current_plan,          \* self.planner.current_plan
    plan,                  \* run's local plan: the list create_plan returned
    plan_shared,           \* plan is the list object current_plan
    subtask,               \* position in plan of run's for loop
    plan_request           \* history: create_plan's task and the planning model's answer

gateVars == <<auto_approve, session_permissions, gate_log>>
ctxVars == <<max_tokens, keep_last_n>>
planVars == <<use_planning, current_plan, plan, plan_shared, subtask, plan_request>>
agentVars == <<max_iterations, pc, iteration, result, fs, llm_calls, dispatches,
               last_response, last_dispatch, planVars>>
vars == <<auto_approve, session_permissions, gate_log, max_tokens, keep_last_n,
          messages, max_iterations, pc, iteration, result, fs, llm_calls,
          dispatches, last_response, last_dispatch, use_planning, current_plan,
          plan, plan_shared, subtask, plan_request>>

(***************************************************************************)
(* Python values.  A str is kept as its literal head and the number of     *)
(* further characters that follow it (a payload whose characters are not   *)
(* told apart); None is a value of its own.                                *)
(***************************************************************************)
None == [type |-> "NoneType"]
Str(head, extra) == [type |-> "str", head |-> head, extra |-> extra]
Lit(s) == Str(s, 0)

\* str(x)
py_str(x) == IF x = None THEN Lit("None") ELSE x
\* len(s) of a str
py_len(s) == Len(s.head) + s.extra
\* sub in s, on the literal heads
Contains(s, sub) ==
    \E i \in 1..(Len(s) - Len(sub) + 1) : SubSeq(s, i, i + Len(sub) - 1) = sub
\* dict.get(key, default)
py_get(d, key, default) == IF key \in DOMAIN d THEN d[key] ELSE default

Min(S) == CHOOSE x \in S : \A y \in S : x <= y

RECURSIVE SumLen(_)
SumLen(q) == IF q = <<>> THEN 0 ELSE q[1] + SumLen(Tail(q))

(***************************************************************************)
(* Bounds of the model.                                                    *)
(***************************************************************************)
MaxGateCalls == 3     \* calls on the gate in SpecGate
MaxTokens == 6        \* largest max_tokens a ContextManager is built with in SpecCtx
MaxKeep == 2          \* largest keep_last_n in SpecCtx
MaxMessages == 4      \* longest conversation in SpecCtx
MaxIterations == 3    \* largest max_iterations an Agent is built with in Spec
MaxToolCalls == 2     \* calls of execute_tool in SpecTools
MaxLongIterations == 10   \* max_iterations of the Agent in SpecLong
MaxPlanIterations == 2    \* largest max_iterations of the Agent in SpecPlan

(***************************************************************************)
(* permissions.py: PermissionManager                                       *)
(***************************************************************************)
OperationKinds == {"write_file", "edit_file"}
FilePaths == {None, Lit("a.txt"), Lit("b.txt")}
NoPerms == [k \in {} |-> TRUE]

\* request_permission, lines 47-66: the prompt.  approved and remember are the
\* user's answers to the two Confirm.ask prompts; the second is asked only after
\* an approval.  answers: the answers read, in order.
ask_user(perms, operation, approved, remember) ==
    IF approved
    THEN IF remember
         THEN [ret |-> approved, answers |-> <<approved, remember>>,
               perms |-> [k \in DOMAIN perms \cup {operation} |->
                             IF k = operation THEN TRUE ELSE perms[k]]]
         ELSE [ret |-> approved, answers |-> <<approved, remember>>, perms |-> perms]
    ELSE [ret |-> approved, answers |-> <<approved>>, perms |-> perms]

\* faulty variant: the remembered decision is never stored
request_permission_forgets(auto, perms, operation, filepath, approved, remember) ==
    IF auto
    THEN [ret |-> TRUE, answers |-> <<>>, perms |-> perms]
    ELSE IF operation \in DOMAIN perms
    THEN [ret |-> perms[operation], answers |-> <<>>, perms |-> perms]
    ELSE [ask_user(perms, operation, approved, remember) EXCEPT !.perms = perms]

\* faulty variant: the decision is stored whatever it is, a denial too
request_permission_memo_denial(auto, perms, operation, filepath, approved, remember) ==
    IF auto
    THEN [ret |-> TRUE, answers |-> <<>>, perms |-> perms]
    ELSE IF operation \in DOMAIN perms
    THEN [ret |-> perms[operation], answers |-> <<>>, perms |-> perms]
    ELSE [ask_user(perms, operation, approved, remember) EXCEPT !.perms =
             [k \in DOMAIN perms \cup {operation} |->
                 IF k = operation THEN approved ELSE perms[k]]]

\* faulty variant: auto-approve mode is looked at after the prompt, not before
request_permission_no_auto(auto, perms, operation, filepath, approved, remember) ==
    IF operation \in DOMAIN perms
    THEN [ret |-> perms[operation], answers |-> <<>>, perms |-> perms]
    ELSE [ask_user(perms, operation, approved, remember) EXCEPT !.ret = auto \/ approved]

\* request_permission on a gate in state (auto, perms)
\* faulty variant: "remember" stores the approval for every kind
request_permission_remembers_all(auto, perms, operation, filepath, approved, remember) ==
    IF auto
    THEN [ret |-> TRUE, answers |-> <<>>, perms |-> perms]
    ELSE IF operation \in DOMAIN perms
    THEN [ret |-> perms[operation], answers |-> <<>>, perms |-> perms]
    ELSE IF approved /\ remember
    THEN [ask_user(perms, operation, approved, remember) EXCEPT !.perms =
             [k \in OperationKinds |-> TRUE]]
    ELSE ask_user(perms, operation, approved, remember)

request_permission(auto, perms, operation, filepath, approved, remember) ==
    IF auto
    THEN [ret |-> TRUE, answers |-> <<>>, perms |-> perms]
    ELSE IF operation \in DOMAIN perms
    THEN [ret |-> perms[operation], answers |-> <<>>, perms |-> perms]
    ELSE ask_user(perms, operation, approved, remember)

\* faulty variant: the reset clears nothing
reset_session_permissions_keeps(perms) == perms

\* reset_session_permissions: self.session_permissions.clear()
reset_session_permissions(perms) == NoPerms

(***************************************************************************)
(* context.py: ContextManager                                              *)
(***************************************************************************)
\* estimate_tokens: sum(len(str(msg.get("content", ""))) for msg) // 4
estimate_tokens(msgs) ==
    SumLen([i \in 1..Len(msgs) |-> py_len(py_str(py_get(msgs[i], "content", Lit(""))))])
        \div 4

\* int(self.max_tokens * 0.8): the double product truncated; for max_tokens below
\* 2^50 that is floor(4 * max_tokens / 5)
threshold(maxTokens) == (4 * maxTokens) \div 5

\* faulty variant: the threshold itself already counts as over it
should_compact_at_threshold(msgs) == estimate_tokens(msgs) >= threshold(max_tokens)

\* should_compact: tokens > threshold
should_compact(msgs) == estimate_tokens(msgs) > threshold(max_tokens)

\* messages[-n:]
LastN(msgs, n) ==
    IF n = 0 \/ n >= Len(msgs) THEN msgs ELSE SubSeq(msgs, Len(msgs) - n + 1, Len(msgs))

\* msg.get("role") == role
HasRole(msg, role) == "role" \in DOMAIN msg /\ msg.role = role

InSeq(x, q) == \E i \in 1..Len(q) : q[i] = x

\* faulty variant: the kept tail is one message longer
compact_messages_longer_tail(msgs) ==
    IF Len(msgs) <= keep_last_n + 1
    THEN msgs
    ELSE LET system_msg == IF HasRole(msgs[1], "system") THEN <<msgs[1]>> ELSE <<>>
             users == {i \in 2..Len(msgs) : HasRole(msgs[i], "user")}
             recent == LastN(msgs, keep_last_n + 1)
             first_user_msg == IF users = {} THEN <<>>
                               ELSE IF InSeq(msgs[Min(users)], recent) THEN <<>>
                               ELSE <<msgs[Min(users)]>>
         IN  system_msg \o first_user_msg \o recent

\* faulty variant: the list is rebuilt whatever its length
compact_messages_always(msgs) ==
    LET system_msg == IF msgs # <<>> /\ HasRole(msgs[1], "system") THEN <<msgs[1]>> ELSE <<>>
        users == {i \in 2..Len(msgs) : HasRole(msgs[i], "user")}
        recent == LastN(msgs, keep_last_n)
        first_user_msg == IF users = {} THEN <<>>
                          ELSE IF InSeq(msgs[Min(users)], recent) THEN <<>>
                          ELSE <<msgs[Min(users)]>>
    IN  system_msg \o first_user_msg \o recent

\* faulty variant: the first user message is not put back
compact_messages_drops_task(msgs) ==
    IF Len(msgs) <= keep_last_n + 1
    THEN msgs
    ELSE LET system_msg == IF HasRole(msgs[1], "system") THEN <<msgs[1]>> ELSE <<>>
             recent == LastN(msgs, keep_last_n)
         IN  system_msg \o recent

compact_messages(msgs) ==
    IF Len(msgs) <= keep_last_n + 1
    THEN msgs
    ELSE LET system_msg == IF HasRole(msgs[1], "system") THEN <<msgs[1]>> ELSE <<>>
             users == {i \in 2..Len(msgs) : HasRole(msgs[i], "user")}
             recent == LastN(msgs, keep_last_n)
             first_user_msg == IF users = {} THEN <<>>
                               ELSE IF InSeq(msgs[Min(users)], recent) THEN <<>>
                               ELSE <<msgs[Min(users)]>>
         IN  system_msg \o first_user_msg \o recent

(***************************************************************************)
(* agent.py 199: json.loads of a tool call's argument payload.  The payload *)
(* is JSON text, kept as its tokens; the values are strings.  The planner   *)
(* (planner.py 80) parses the same way.                                    *)
(***************************************************************************)
P(c) == [t |-> "punct", v |-> c]
S(s) == [t |-> "string", v |-> s]
N(digits) == [t |-> "number", v |-> digits]
EmptyDict == [k \in {} |-> ""]
JSONDecodeError == [ok |-> FALSE]

\* the members of an object: "key": "value" (, "key": "value")*; a repeated
\* key keeps its last value
RECURSIVE json_members(_, _)
json_members(toks, acc) ==
    IF Len(toks) >= 3 /\ toks[1].t = "string" /\ toks[2] = P(":") /\ toks[3].t = "string"
    THEN LET obj == [k \in DOMAIN acc \cup {toks[1].v} |->
                        IF k = toks[1].v THEN toks[3].v ELSE acc[k]]
             rest == SubSeq(toks, 4, Len(toks))
         IN  IF rest = <<>> THEN [ok |-> TRUE, type |-> "dict", value |-> obj]
             ELSE IF rest[1] = P(",") THEN json_members(Tail(rest), obj)
             ELSE JSONDecodeError
    ELSE JSONDecodeError

\* the elements of an array: "value" (, "value")*
RECURSIVE json_elements(_, _)
json_elements(toks, acc) ==
    IF toks # <<>> /\ toks[1].t = "string"
    THEN LET items == Append(acc, toks[1].v)
             rest == Tail(toks)
         IN  IF rest = <<>> THEN [ok |-> TRUE, type |-> "list", value |-> items]
             ELSE IF rest[1] = P(",") THEN json_elements(Tail(rest), items)
             ELSE JSONDecodeError
    ELSE JSONDecodeError

json_loads(toks) ==
    IF Len(toks) >= 2 /\ toks[1] = P("{") /\ toks[Len(toks)] = P("}")
    THEN IF Len(toks) = 2
         THEN [ok |-> TRUE, type |-> "dict", value |-> EmptyDict]
         ELSE json_members(SubSeq(toks, 2, Len(toks) - 1), EmptyDict)
    ELSE IF toks = <<P("["), P("]")>>
    THEN [ok |-> TRUE, type |-> "list", value |-> <<>>]
    ELSE IF Len(toks) >= 3 /\ toks[1] = P("[") /\ toks[Len(toks)] = P("]")
    THEN json_elements(SubSeq(toks, 2, Len(toks) - 1), <<>>)
    ELSE IF Len(toks) = 1 /\ toks[1].t = "string"
    THEN [ok |-> TRUE, type |-> "str", value |-> toks[1].v]
    ELSE IF Len(toks) = 1 /\ toks[1].t = "number"
    THEN [ok |-> TRUE, type |-> "int", value |-> toks[1].v]
    ELSE JSONDecodeError

(***************************************************************************)
(* tools.py.  The filesystem is a function from paths to file contents; a  *)
(* tool returns its text and the gate record and filesystem it leaves.     *)
(* env: the user's answers to the prompts, whether stdin still has input   *)
(* for them, and whether the write succeeds.                               *)
(***************************************************************************)
AllPaths == <<"a.txt", "b.txt", "big.log">>
Put(files, path, content) ==
    [q \in DOMAIN files \cup {path} |-> IF q = path THEN content ELSE files[q]]

\* str.replace(old, new), every occurrence, left to right
RECURSIVE py_replace(_, _, _)
py_replace(s, old, new) ==
    IF old = "" \/ Len(s) < Len(old) THEN s
    ELSE IF SubSeq(s, 1, Len(old)) = old
    THEN new \o py_replace(SubSeq(s, Len(old) + 1, Len(s)), old, new)
    ELSE SubSeq(s, 1, 1) \o py_replace(SubSeq(s, 2, Len(s)), old, new)

Outcome(text, perms, files, gate) ==
    [text |-> text, perms |-> perms, fs |-> files, gate |-> gate]
GateCall(operation, filepath, g) ==
    [operation |-> operation, filepath |-> filepath, ret |-> g.ret, answers |-> g.answers,
     raised |-> FALSE]

\* request_permission reaches Confirm.ask (permissions.py 41-53)
Prompts(auto, perms, operation) == ~auto /\ operation \notin DOMAIN perms
\* Confirm.ask reads the answer from stdin; with stdin at its end input() raises
\* EOFError, request_permission has no handler and the tools call it outside
\* their try: the error leaves the tool.
EOFError == "EOF when reading a line"
Raised(error, perms, files, gate) ==
    [raised |-> error, perms |-> perms, fs |-> files, gate |-> gate]
GateRaise(operation, filepath) ==
    [operation |-> operation, filepath |-> filepath, ret |-> FALSE, answers |-> <<>>,
     raised |-> TRUE]

\* list_files(directory="."): the sorted entries with their sizes
RECURSIVE Listing(_, _)
Listing(files, paths) ==
    IF paths = <<>> THEN <<>>
    ELSE (IF paths[1] \in DOMAIN files
          THEN <<paths[1] \o " (" \o ToString(py_len(files[paths[1]])) \o " bytes)">>
          ELSE <<>>) \o Listing(files, Tail(paths))

RECURSIVE Join(_, _)
Join(sep, items) ==
    IF items = <<>> THEN ""
    ELSE IF Len(items) = 1 THEN items[1]
    ELSE items[1] \o sep \o Join(sep, Tail(items))

list_files(a, perms, files, env) ==
    LET directory == py_get(a, "directory", ".")
    IN  IF directory # "."
        THEN Outcome(Lit("Error: Directory '" \o directory \o "' does not exist!"),
                     perms, files, <<>>)
        ELSE IF Listing(files, AllPaths) = <<>>
        THEN Outcome(Lit("Directory '" \o directory \o "' is empty"), perms, files, <<>>)
        ELSE Outcome(Lit("Contents of '" \o directory \o "':\n"
                         \o Join("\n", Listing(files, AllPaths))), perms, files, <<>>)

\* read_file: the files of the model hold one line
read_file(a, perms, files, env) ==
    IF a.filepath \notin DOMAIN files
    THEN Outcome(Lit("Error: File '" \o a.filepath \o "' does not exist"), perms, files, <<>>)
    ELSE Outcome(Str("Contents of '" \o a.filepath \o "':\n1 | " \o files[a.filepath].head,
                     files[a.filepath].extra), perms, files, <<>>)

\* faulty variant: the file is written before the gate is asked
write_file_before_gate(a, perms, files, env) ==
    LET g == request_permission(auto_approve, perms, "write_file", Lit(a.filepath),
                                env.approved, env.remember)
        gate == <<GateCall("write_file", Lit(a.filepath), g)>>
    IN  IF ~g.ret
        THEN Outcome(Lit("Permission denied: Cannot write to '" \o a.filepath \o "'"),
                     g.perms, Put(files, a.filepath, Lit(a.content)), gate)
        ELSE Outcome(Lit("Wrote " \o ToString(Len(a.content)) \o " characters to '"
                         \o a.filepath \o "'"),
                     g.perms, Put(files, a.filepath, Lit(a.content)), gate)

\* write_file: _permission_manager is the Agent's gate (agent.py 109-110)
write_file(a, perms, files, env) ==
    LET g == request_permission(auto_approve, perms, "write_file", Lit(a.filepath),
                                env.approved, env.remember)
        gate == <<GateCall("write_file", Lit(a.filepath), g)>>
    IN  IF Prompts(auto_approve, perms, "write_file") /\ ~env.stdin_ok
        THEN Raised(EOFError, perms, files, <<GateRaise("write_file", Lit(a.filepath))>>)
        ELSE IF ~g.ret
        THEN Outcome(Lit("Permission denied: Cannot write to '" \o a.filepath \o "'"),
                     g.perms, files, gate)
        ELSE IF env.io_ok
        THEN Outcome(Lit("Wrote " \o ToString(Len(a.content)) \o " characters to '"
                         \o a.filepath \o "'"),
                     g.perms, Put(files, a.filepath, Lit(a.content)), gate)
        ELSE Outcome(Lit("Error writing file: [Errno 28] No space left on device"),
                     g.perms, files, gate)

\* the paths the glob pattern matches: "*" every file, a name that file
RECURSIVE Glob(_, _, _)
Glob(files, pattern, paths) ==
    IF paths = <<>> THEN <<>>
    ELSE (IF paths[1] \in DOMAIN files /\ pattern \in {"*", paths[1]}
          THEN <<" -- " \o paths[1]>> ELSE <<>>) \o Glob(files, pattern, Tail(paths))

search_files(a, perms, files, env) ==
    LET matches == Glob(files, a.pattern, AllPaths)
    IN  IF a.directory # "."
        THEN Outcome(Lit("Error: Directory '" \o a.directory \o "' does not exist"),
                     perms, files, <<>>)
        ELSE IF matches = <<>>
        THEN Outcome(Lit("No files matching '" \o a.pattern \o "' found in '"
                         \o a.directory \o "'"), perms, files, <<>>)
        ELSE Outcome(Lit("Found " \o ToString(Len(matches)) \o " file(s) matching pattern '"
                         \o a.pattern \o "':\n" \o Join("\n", matches)), perms, files, <<>>)

edit_file(a, perms, files, env) ==
    LET g == request_permission(auto_approve, perms, "edit_file", Lit(a.filepath),
                                env.approved, env.remember)
        gate == <<GateCall("edit_file", Lit(a.filepath), g)>>
    IN  IF Prompts(auto_approve, perms, "edit_file") /\ ~env.stdin_ok
        THEN Raised(EOFError, perms, files, <<GateRaise("edit_file", Lit(a.filepath))>>)
        ELSE IF ~g.ret
        THEN Outcome(Lit("Permission denied: Cannot edit '" \o a.filepath \o "'"),
                     g.perms, files, gate)
        ELSE IF a.filepath \notin DOMAIN files
        THEN Outcome(Lit("Error: File '" \o a.filepath \o "' does not exist"),
                     g.perms, files, gate)
        ELSE IF ~Contains(files[a.filepath].head, a.old_text)
        THEN Outcome(Lit("Error: Could not find the text to replace in '"
                         \o a.filepath \o "'"), g.perms, files, gate)
        ELSE IF env.io_ok
        THEN Outcome(Lit("Successfully edited '" \o a.filepath \o "'"), g.perms,
                     Put(files, a.filepath,
                         Str(py_replace(files[a.filepath].head, a.old_text, a.new_text),
                             files[a.filepath].extra)), gate)
        ELSE Outcome(Lit("Error editing file: [Errno 28] No space left on device"),
                     g.perms, files, gate)

\* search_codebase: _rag_instance is not set unless the Agent is built with RAG
search_codebase(a, perms, files, env) ==
    Outcome(Lit("Error: RAG not initialized. Use --use-rag flag to enable codebase search."),
            perms, files, <<>>)

\* search_web: TAVILY_API_KEY is not set
search_web(a, perms, files, env) ==
    Outcome(Lit("Error: TAVILY_API_KEY not set. Set it with: export TAVILY_API_KEY=<your-api-key>"),
            perms, files, <<>>)

TOOL_FUNCTIONS ==
    {"list_files", "read_file", "write_file", "search_files", "edit_file",
     "search_codebase", "search_web"}

\* the parameters of each function's signature without / with a default
Required(name) ==
    CASE name = "list_files" -> {}
      [] name = "read_file" -> {"filepath"}
      [] name = "write_file" -> {"filepath", "content"}
      [] name = "search_files" -> {"pattern", "directory"}
      [] name = "edit_file" -> {"filepath", "old_text", "new_text"}
      [] name = "search_codebase" -> {"query"}
      [] name = "search_web" -> {"query"}
Defaulted(name) ==
    CASE name = "list_files" -> {"directory"}
      [] name \in {"search_codebase", "search_web"} -> {"max_results"}
      [] OTHER -> {}

\* TOOLS: the "required" list of each tool's declared schema
SchemaRequired(name) ==
    CASE name = "list_files" -> {}
      [] name = "read_file" -> {"filepath"}
      [] name = "write_file" -> {"filepath", "content"}
      [] name = "search_files" -> {"pattern"}
      [] name = "edit_file" -> {"filepath", "old_text", "new_text"}
      [] name = "search_codebase" -> {"query"}
      [] name = "search_web" -> {"query"}

\* func(**tool_args) binds: a mapping with every required name and no unknown one
Binds(name, args) ==
    /\ args.type = "dict"
    /\ Required(name) \subseteq DOMAIN args.value
    /\ DOMAIN args.value \subseteq Required(name) \cup Defaulted(name)

CallTool(name, a, perms, files, env) ==
    CASE name = "list_files" -> list_files(a, perms, files, env)
      [] name = "read_file" -> read_file(a, perms, files, env)
      [] name = "write_file" -> write_file(a, perms, files, env)
      [] name = "search_files" -> search_files(a, perms, files, env)
      [] name = "edit_file" -> edit_file(a, perms, files, env)
      [] name = "search_codebase" -> search_codebase(a, perms, files, env)
      [] name = "search_web" -> search_web(a, perms, files, env)

\* str(e) of the TypeError that func(**tool_args) raises when it does not bind
BindError(tool_name, tool_args) ==
    tool_name \o "() "
        \o (IF tool_args.type # "dict"
            THEN "argument after ** must be a mapping, not " \o tool_args.type
            ELSE IF ~(Required(tool_name) \subseteq DOMAIN tool_args.value)
            THEN "missing required positional argument"
            ELSE "got an unexpected keyword argument")

\* faulty variant: the error text of an unknown tool does not say which
execute_tool_anonymous(tool_name, tool_args, perms, files, env) ==
    IF tool_name \notin TOOL_FUNCTIONS
    THEN Outcome(Lit("Error: Unknown tool"), perms, files, <<>>)
    ELSE IF ~Binds(tool_name, tool_args)
    THEN Outcome(Lit("Error: Invalid arguments for tool '" \o tool_name \o "': "
                     \o BindError(tool_name, tool_args)), perms, files, <<>>)
    ELSE LET d == CallTool(tool_name, tool_args.value, perms, files, env)
         IN  IF "raised" \in DOMAIN d
             THEN Outcome(Lit("Error executing tool '" \o tool_name \o "': " \o d.raised),
                          d.perms, d.fs, d.gate)
             ELSE d

\* faulty variant: only TypeError is caught, any other error leaves execute_tool
execute_tool_type_errors_only(tool_name, tool_args, perms, files, env) ==
    IF tool_name \notin TOOL_FUNCTIONS
    THEN Outcome(Lit("Error: Unknown tool '" \o tool_name \o "'"), perms, files, <<>>)
    ELSE IF ~Binds(tool_name, tool_args)
    THEN Outcome(Lit("Error: Invalid arguments for tool '" \o tool_name \o "': "
                     \o BindError(tool_name, tool_args)), perms, files, <<>>)
    ELSE CallTool(tool_name, tool_args.value, perms, files, env)

\* execute_tool(tool_name, tool_args): tool_args is what json.loads returned
execute_tool(tool_name, tool_args, perms, files, env) ==
    IF tool_name \notin TOOL_FUNCTIONS
    THEN Outcome(Lit("Error: Unknown tool '" \o tool_name \o "'"), perms, files, <<>>)
    ELSE IF ~Binds(tool_name, tool_args)
    THEN Outcome(Lit("Error: Invalid arguments for tool '" \o tool_name \o "': "
                     \o BindError(tool_name, tool_args)), perms, files, <<>>)
    ELSE LET d == CallTool(tool_name, tool_args.value, perms, files, env)
         IN  IF "raised" \in DOMAIN d
             THEN Outcome(Lit("Error executing tool '" \o tool_name \o "': " \o d.raised),
                          d.perms, d.fs, d.gate)
             ELSE d

(***************************************************************************)
(* planner.py: TaskPlanner.  The planning model's answer is a text, kept as *)
(* its tokens: JSON tokens, words, blanks and code fences (three            *)
(* backquotes).                                                            *)
(***************************************************************************)
Fence == [t |-> "fence", v |-> "fence"]
Blank == [t |-> "space", v |-> " "]
Word(w) == [t |-> "word", v |-> w]

\* str.strip()
RECURSIVE lstrip(_)
lstrip(toks) == IF toks # <<>> /\ toks[1] = Blank THEN lstrip(Tail(toks)) ELSE toks
RECURSIVE rstrip(_)
rstrip(toks) ==
    IF toks # <<>> /\ toks[Len(toks)] = Blank
    THEN rstrip(SubSeq(toks, 1, Len(toks) - 1)) ELSE toks
strip(toks) == rstrip(lstrip(toks))

\* text.split(fence)[1], for a text that holds a fence: what lies between the
\* first fence and the next one, or the end
Fences(toks) == {i \in 1..Len(toks) : toks[i] = Fence}
split_1(toks) ==
    LET first == Min(Fences(toks))
        later == {i \in Fences(toks) : i > first}
    IN  SubSeq(toks, first + 1, IF later = {} THEN Len(toks) ELSE Min(later) - 1)

\* json.loads skips the blanks between the tokens
NotBlank(tok) == tok # Blank
json_text(toks) == json_loads(SelectSeq(toks, NotBlank))

\* the keys of a dict, in insertion order (the dicts of the model have one key)
RECURSIVE dict_keys(_)
dict_keys(d) ==
    IF DOMAIN d = {} THEN <<>>
    ELSE LET k == CHOOSE k \in DOMAIN d : TRUE
         IN  <<k>> \o dict_keys([q \in DOMAIN d \ {k} |-> d[q]])

\* what enumerate(subtasks, 1) walks over: the items of a list, the characters
\* of a str, the keys of a dict
Iterable(value) == value.type \in {"list", "str", "dict"}
Items(value) ==
    CASE value.type = "list" -> value.value
      [] value.type = "str" -> [i \in 1..Len(value.value) |-> SubSeq(value.value, i, i)]
      [] value.type = "dict" -> dict_keys(value.value)

Subtask(id, description) == [id |-> id, description |-> description, status |-> "pending"]

\* create_plan 72-78: the answer stripped, and without its fence and the
\* "json" that follows the fence
response_text(content) ==
    LET stripped == strip(content)
        fenced == InSeq(Fence, stripped)
        inner == IF fenced THEN split_1(stripped) ELSE stripped
    IN  IF fenced /\ inner # <<>> /\ inner[1] = Word("json") THEN Tail(inner) ELSE inner

\* create_plan 101-108: the fallback, current_plan left as it was
fallback_plan(task, current) ==
    [plan |-> <<Subtask(1, task)>>, current_plan |-> current, shared |-> FALSE]

\* faulty variant: a failed planning call leaves the run without a subtask
create_plan_gives_up(task, response, current) ==
    [plan |-> <<>>, current_plan |-> current, shared |-> FALSE]

\* create_plan(task), on the planning model's answer: the list it returns,
\* current_plan after it, and whether the two are one list
create_plan(task, response, current) ==
    IF response.kind = "error"
    THEN fallback_plan(task, current)            \* completion() raises
    ELSE IF response.kind = "none"
    THEN fallback_plan(task, current)            \* content is None: no .strip()
    ELSE LET subtasks == json_text(response_text(response.content))
         IN  IF ~subtasks.ok
             THEN fallback_plan(task, current)   \* json.loads raises
             ELSE IF ~Iterable(subtasks)
             THEN fallback_plan(task, current)   \* enumerate raises TypeError
             ELSE LET made == [i \in 1..Len(Items(subtasks)) |->
                                  Subtask(i, Lit(Items(subtasks)[i]))]
                  IN  [plan |-> made, current_plan |-> made, shared |-> TRUE]

\* mark_completed: the first subtask of current_plan with that id
mark_completed(current, subtask_id) ==
    LET hits == {i \in 1..Len(current) : current[i].id = subtask_id}
    IN  IF hits = {} THEN current
        ELSE [current EXCEPT ![Min(hits)].status = "completed"]

\* is_plan_complete
is_plan_complete(current) == \A i \in 1..Len(current) : current[i].status = "completed"

(***************************************************************************)
(* The states in which the parts a specification does not exercise rest.   *)
(***************************************************************************)
NoPlanRequest == [task |-> None, response |-> [kind |-> "never"]]
\* a planner that made no plan yet (planner.py 31), run not called
NoPlan ==
    /\ current_plan = <<>>
    /\ plan = <<>>
    /\ plan_shared = FALSE
    /\ subtask = 0
    /\ plan_request = NoPlanRequest

AgentMaxTokens == 128000
AgentKeepLastN == 10
NoResult == [kind |-> "none"]
NoResponse == [content |-> None, tool_calls |-> <<>>]
NoDispatch == [name |-> "", gate |-> <<>>, text |-> None]

AgentIdle ==
    /\ max_iterations = 0
    /\ pc = "idle"
    /\ iteration = 0
    /\ result = NoResult
    /\ fs = <<>>
    /\ llm_calls = 0
    /\ dispatches = 0
    /\ last_response = NoResponse
    /\ last_dispatch = NoDispatch
    /\ use_planning = FALSE
    /\ NoPlan

(***************************************************************************)
(* SpecGate: a PermissionManager, built in either mode, under any calls.   *)
(***************************************************************************)
GateInit ==
    /\ auto_approve \in BOOLEAN
    /\ session_permissions = NoPerms
    /\ gate_log = <<>>
    /\ max_tokens = AgentMaxTokens
    /\ keep_last_n = AgentKeepLastN
    /\ messages = <<>>
    /\ AgentIdle

RequestPermission(operation, filepath, approved, remember) ==
    LET r == request_permission(auto_approve, session_permissions, operation,
                                filepath, approved, remember)
    IN  /\ Len(gate_log) < MaxGateCalls
        /\ session_permissions' = r.perms
        /\ gate_log' = Append(gate_log,
               [call |-> "request_permission", operation |-> operation,
                filepath |-> filepath, answers |-> r.answers, ret |-> r.ret,
                before |-> session_permissions, after |-> r.perms])
        /\ UNCHANGED <<auto_approve, max_tokens, keep_last_n, messages>>
        /\ UNCHANGED agentVars

ResetSessionPermissions ==
    /\ Len(gate_log) < MaxGateCalls
    /\ session_permissions' = reset_session_permissions(session_permissions)
    /\ gate_log' = Append(gate_log,
           [call |-> "reset_session_permissions", operation |-> "",
            filepath |-> None, answers |-> <<>>, ret |-> FALSE,
            before |-> session_permissions,
            after |-> reset_session_permissions(session_permissions)])
    /\ UNCHANGED <<auto_approve, max_tokens, keep_last_n, messages>>
    /\ UNCHANGED agentVars

GateNext ==
    \/ \E operation \in OperationKinds, filepath \in FilePaths,
          approved \in BOOLEAN, remember \in BOOLEAN :
            RequestPermission(operation, filepath, approved, remember)
    \/ ResetSessionPermissions

SpecGate == GateInit /\ [][GateNext]_vars

(***************************************************************************)
(* SpecCtx: a ContextManager built with any budget and window, applied to   *)
(* conversations that start with a system message.                         *)
(***************************************************************************)
SomeCall == [id |-> <<0, 1>>, type |-> "function",
             function |-> [name |-> "list_files", arguments |-> <<>>]]
CtxSystemContents == {Lit(""), Lit("You")}
CtxMessages ==
    { [role |-> "user", content |-> Lit("hi")],
      [role |-> "user", content |-> Str("task", 5)],
      [role |-> "assistant", content |-> None, tool_calls |-> <<SomeCall>>],
      [role |-> "assistant", tool_calls |-> <<SomeCall>>],
      [role |-> "tool", content |-> Lit("x"), tool_call_id |-> <<0, 1>>],
      [role |-> "tool", content |-> Str("r", 7), tool_call_id |-> <<0, 1>>] }

CtxInit ==
    /\ max_tokens \in 1..MaxTokens
    /\ keep_last_n \in 0..MaxKeep
    /\ \E c \in CtxSystemContents : messages = <<[role |-> "system", content |-> c]>>
    /\ auto_approve = FALSE
    /\ session_permissions = NoPerms
    /\ gate_log = <<>>
    /\ AgentIdle

\* the conversation grows by one message
CtxAppend(m) ==
    /\ Len(messages) < MaxMessages
    /\ messages' = Append(messages, m)
    /\ UNCHANGED <<max_tokens, keep_last_n>>
    /\ UNCHANGED gateVars
    /\ UNCHANGED agentVars

\* agent.py 190-191: compact when should_compact says so
CheckContext(msgs) == IF should_compact(msgs) THEN compact_messages(msgs) ELSE msgs

CtxCheckContext ==
    /\ Len(CheckContext(messages)) <= MaxMessages
    /\ messages' = CheckContext(messages)
    /\ UNCHANGED <<max_tokens, keep_last_n>>
    /\ UNCHANGED gateVars
    /\ UNCHANGED agentVars

\* compact_messages called on the conversation
CtxCompact ==
    /\ Len(compact_messages(messages)) <= MaxMessages
    /\ messages' = compact_messages(messages)
    /\ UNCHANGED <<max_tokens, keep_last_n>>
    /\ UNCHANGED gateVars
    /\ UNCHANGED agentVars

CtxNext ==
    \/ \E m \in CtxMessages : CtxAppend(m)
    \/ CtxCheckContext
    \/ CtxCompact

SpecCtx == CtxInit /\ [][CtxNext]_vars

(***************************************************************************)
(* Spec: an Agent built without planning runs one task.  The model's       *)
(* responses, the user's answers and the outcome of a write are inputs.    *)
(***************************************************************************)
SystemPromptChars == 2056
BigFileChars == 600000
SYSTEM_PROMPT == Str("", SystemPromptChars)
Tasks == {Lit("list files in the current directory")}
ExhaustionMessage == Lit("Reached maximum iterations for this subtask.")

Object(members) == <<P("{")>> \o members \o <<P("}")>>
Member(key, value) == <<S(key), P(":"), S(value)>>
Call(name, arguments) == [name |-> name, arguments |-> arguments]

WriteB == Call("write_file",
               Object(Member("filepath", "b.txt") \o <<P(",")>> \o Member("content", "x")))
EditA == Call("edit_file",
              Object(Member("filepath", "a.txt") \o <<P(",")>> \o Member("old_text", "h")
                     \o <<P(",")>> \o Member("new_text", "j")))
\* what the model may answer: a text, nothing, one tool call or several
ModelResponses ==
    { [content |-> Lit("Done, there are 3 files."), calls |-> <<>>],
      [content |-> None, calls |-> <<>>],
      [content |-> None, calls |-> <<Call("list_files", Object(<<>>))>>],
      [content |-> None, calls |-> <<Call("read_file", Object(Member("filepath", "a.txt")))>>],
      [content |-> None, calls |-> <<Call("read_file", Object(Member("filepath", "big.log")))>>],
      [content |-> None, calls |-> <<WriteB>>],
      [content |-> None, calls |-> <<EditA>>],
      \* a required argument is missing
      [content |-> None, calls |-> <<Call("write_file", Object(Member("filepath", "b.txt")))>>],
      \* no such tool
      [content |-> None, calls |-> <<Call("delete_file", Object(Member("filepath", "a.txt")))>>],
      \* a payload cut short: not JSON
      [content |-> None,
       calls |-> <<Call("write_file", <<P("{")>> \o Member("filepath", "b.txt"))>>],
      \* a text and two calls
      [content |-> Lit("Listing, then writing."),
       calls |-> <<Call("list_files", Object(<<>>)), WriteB>>] }

\* _call_llm 265-282: the response as a dict, the n-th completion's calls
\* carrying the ids the provider gave them
LLMResult(response, n) ==
    [content |-> response.content,
     tool_calls |-> [i \in 1..Len(response.calls) |->
                        [id |-> <<n, i>>, type |-> "function",
                         function |-> response.calls[i]]]]

Init ==
    /\ auto_approve = FALSE
    /\ session_permissions = NoPerms
    /\ gate_log = <<>>
    /\ max_tokens = AgentMaxTokens
    /\ keep_last_n = AgentKeepLastN
    /\ messages = <<>>
    /\ max_iterations \in 0..MaxIterations
    /\ pc = "idle"
    /\ iteration = 0
    /\ result = NoResult
    /\ fs = [q \in {"a.txt", "big.log"} |->
               IF q = "a.txt" THEN Lit("hi") ELSE Str("", BigFileChars)]
    /\ llm_calls = 0
    /\ dispatches = 0
    /\ last_response = NoResponse
    /\ last_dispatch = NoDispatch
    /\ use_planning = FALSE
    /\ NoPlan

\* run(task) without planning: _execute_subtask(task), 173-182
Run(task) ==
    /\ ~use_planning
    /\ pc = "idle"
    /\ pc' = "loop"
    /\ messages' = << [role |-> "system", content |-> SYSTEM_PROMPT],
                      [role |-> "user", content |-> task] >>
    /\ iteration' = 0
    /\ UNCHANGED <<max_iterations, result, fs, llm_calls, dispatches, last_response,
                   last_dispatch>>
    /\ UNCHANGED gateVars
    /\ UNCHANGED ctxVars
    /\ UNCHANGED planVars

\* one iteration of the loop, 185-231, on the model's answer response
Iterate(response, env) ==
    /\ pc = "loop"
    /\ iteration < max_iterations
    /\ LET msgs == CheckContext(messages)
           r == LLMResult(response, llm_calls + 1)
       IN  /\ iteration' = iteration + 1
           /\ llm_calls' = llm_calls + 1
           /\ last_response' = r
           /\ IF r.tool_calls # <<>>
              THEN LET tool_call == r.tool_calls[1]
                       tool_name == tool_call.function.name
                       tool_args == json_loads(tool_call.function.arguments)
                   IN  IF ~tool_args.ok
                       THEN \* json.loads raises; nothing catches it
                            /\ pc' = "raised"
                            /\ result' = [kind |-> "raise", error |-> "JSONDecodeError"]
                            /\ messages' = msgs
                            /\ UNCHANGED <<fs, session_permissions, dispatches,
                                           last_dispatch>>
                       ELSE LET d == execute_tool(tool_name, tool_args,
                                                  session_permissions, fs, env)
                            IN  /\ pc' = "loop"
                                /\ result' = result
                                /\ fs' = d.fs
                                /\ session_permissions' = d.perms
                                /\ dispatches' = dispatches + 1
                                /\ last_dispatch' = [name |-> tool_name, gate |-> d.gate,
                                                     text |-> d.text]
                                /\ messages' = msgs \o
                                     << [role |-> "assistant", content |-> None,
                                         tool_calls |-> <<tool_call>>],
                                        [role |-> "tool", content |-> d.text,
                                         tool_call_id |-> tool_call.id] >>
              ELSE /\ pc' = "returned"
                   /\ result' = [kind |-> "return", value |-> r.content]
                   /\ messages' = msgs
                   /\ UNCHANGED <<fs, session_permissions, dispatches, last_dispatch>>
    /\ UNCHANGED <<auto_approve, gate_log, max_iterations>>
    /\ UNCHANGED ctxVars
    /\ UNCHANGED planVars

\* faulty variant: the failure is reported and the subtask ends as if it returned
LLMFails_swallowed ==
    /\ pc = "loop"
    /\ iteration < max_iterations
    /\ iteration' = iteration + 1
    /\ llm_calls' = llm_calls + 1
    /\ messages' = CheckContext(messages)
    /\ pc' = "returned"
    /\ result' = [kind |-> "raise", error |-> "completion"]
    /\ UNCHANGED <<max_iterations, fs, dispatches, last_response, last_dispatch>>
    /\ UNCHANGED gateVars
    /\ UNCHANGED ctxVars
    /\ UNCHANGED planVars

\* _call_llm 289-297: completion() fails; the error is reported and raised again
LLMFails ==
    /\ pc = "loop"
    /\ iteration < max_iterations
    /\ iteration' = iteration + 1
    /\ llm_calls' = llm_calls + 1
    /\ messages' = CheckContext(messages)
    /\ pc' = "raised"
    /\ result' = [kind |-> "raise", error |-> "completion"]
    /\ UNCHANGED <<max_iterations, fs, dispatches, last_response, last_dispatch>>
    /\ UNCHANGED gateVars
    /\ UNCHANGED ctxVars
    /\ UNCHANGED planVars

\* 233: the for loop ran out
Exhausted ==
    /\ pc = "loop"
    /\ iteration = max_iterations
    /\ pc' = "returned"
    /\ result' = [kind |-> "return", value |-> ExhaustionMessage]
    /\ UNCHANGED <<messages, max_iterations, iteration, fs, llm_calls, dispatches,
                   last_response, last_dispatch>>
    /\ UNCHANGED gateVars
    /\ UNCHANGED ctxVars
    /\ UNCHANGED planVars

\* the second question is asked only after a yes (permissions.py 55-59), and
\* nothing is answered when stdin is at its end: answers never read are left out
Environments ==
    {env \in [approved : BOOLEAN, remember : BOOLEAN, stdin_ok : BOOLEAN,
              io_ok : BOOLEAN] :
        /\ ~env.stdin_ok => ~env.approved
        /\ ~env.approved => ~env.remember}

Next ==
    \/ \E task \in Tasks : Run(task)
    \/ \E response \in ModelResponses, env \in Environments : Iterate(response, env)
    \/ LLMFails
    \/ Exhausted

Spec == Init /\ [][Next]_vars

(***************************************************************************)
(* SpecLong: an Agent run long enough for the conversation to outgrow the   *)
(* window: the model reads and lists files until it answers.               *)
(***************************************************************************)
LongResponses ==
    { [content |-> Lit("Done, there are 3 files."), calls |-> <<>>],
      [content |-> None, calls |-> <<Call("list_files", Object(<<>>))>>],
      [content |-> None, calls |-> <<Call("read_file", Object(Member("filepath", "a.txt")))>>],
      [content |-> None, calls |-> <<Call("read_file", Object(Member("filepath", "big.log")))>>] }

\* these tools ask the user nothing and write nothing: one environment is all
LongEnvironments ==
    {[approved |-> TRUE, remember |-> FALSE, stdin_ok |-> TRUE, io_ok |-> TRUE]}

LongInit ==
    /\ auto_approve = FALSE
    /\ session_permissions = NoPerms
    /\ gate_log = <<>>
    /\ max_tokens = AgentMaxTokens
    /\ keep_last_n = AgentKeepLastN
    /\ messages = <<>>
    /\ max_iterations = MaxLongIterations
    /\ pc = "idle"
    /\ iteration = 0
    /\ result = NoResult
    /\ fs = [q \in {"a.txt", "big.log"} |->
               IF q = "a.txt" THEN Lit("hi") ELSE Str("", BigFileChars)]
    /\ llm_calls = 0
    /\ dispatches = 0
    /\ last_response = NoResponse
    /\ last_dispatch = NoDispatch
    /\ use_planning = FALSE
    /\ NoPlan

LongNext ==
    \/ \E task \in Tasks : Run(task)
    \/ \E response \in LongResponses, env \in LongEnvironments : Iterate(response, env)
    \/ LLMFails
    \/ Exhausted

SpecLong == LongInit /\ [][LongNext]_vars

(***************************************************************************)
(* SpecPlan: an Agent built with or without planning runs one task.  With   *)
(* planning, run asks the planner for a plan and walks through it.         *)
(***************************************************************************)
\* the text of agent.py 149; its first character, a check mark, is the one
\* character counted beside the literal part
CompletionMessage == Str(" All subtasks completed! Task finished successfully.", 1)

\* what the planning model may answer
PlanResponses ==
    { [kind |-> "error"],                    \* completion() raises
      [kind |-> "none"],                     \* a message without content
      [kind |-> "text", content |-> <<Word("Sorry"), Blank, Word("no")>>],
      [kind |-> "text", content |-> <<P("["), S("A"), P(","), Blank, S("B"), P("]")>>],
      [kind |-> "text",
       content |-> <<Fence, Word("json"), Blank, P("["), S("A"), P("]"), Blank, Fence>>],
      [kind |-> "text",
       content |-> <<Fence, Blank, Word("json"), P("["), S("A"), P("]"), Fence>>],
      [kind |-> "text", content |-> <<P("["), S("A"), P(",")>>],
      [kind |-> "text", content |-> <<P("["), P("]")>>],
      [kind |-> "text", content |-> <<N("7")>>],
      [kind |-> "text", content |-> <<S("ab")>>],
      [kind |-> "text", content |-> Object(Member("steps", "A"))] }

\* what the model may answer inside a subtask
PlanModelResponses ==
    { [content |-> Lit("Done, there are 3 files."), calls |-> <<>>],
      [content |-> None, calls |-> <<Call("list_files", Object(<<>>))>>],
      [content |-> None, calls |-> <<WriteB>>] }

\* the user answers the prompt with yes or no, and a yes with or without
\* "remember"; stdin is open and the disk has room
PlanEnvironments ==
    {env \in [approved : BOOLEAN, remember : BOOLEAN, stdin_ok : {TRUE},
              io_ok : {TRUE}] : ~env.approved => ~env.remember}

PlanInit ==
    /\ auto_approve = FALSE
    /\ session_permissions = NoPerms
    /\ gate_log = <<>>
    /\ max_tokens = AgentMaxTokens
    /\ keep_last_n = AgentKeepLastN
    /\ messages = <<>>
    /\ max_iterations \in 1..MaxPlanIterations
    /\ pc = "idle"
    /\ iteration = 0
    /\ result = NoResult
    /\ fs = [q \in {"a.txt", "big.log"} |->
               IF q = "a.txt" THEN Lit("hi") ELSE Str("", BigFileChars)]
    /\ llm_calls = 0
    /\ dispatches = 0
    /\ last_response = NoResponse
    /\ last_dispatch = NoDispatch
    /\ use_planning \in BOOLEAN
    /\ NoPlan

\* run 136-137: plan = self.planner.create_plan(task)
CreatePlan(task, response) ==
    /\ use_planning
    /\ pc = "idle"
    /\ LET made == create_plan(task, response, current_plan)
       IN  /\ plan' = made.plan
           /\ current_plan' = made.current_plan
           /\ plan_shared' = made.shared
    /\ plan_request' = [task |-> task, response |-> response]
    /\ subtask' = 0
    /\ pc' = "planned"
    /\ UNCHANGED <<use_planning, messages, max_iterations, iteration, result, fs,
                   llm_calls, dispatches, last_response, last_dispatch>>
    /\ UNCHANGED gateVars
    /\ UNCHANGED ctxVars

\* faulty variant: the subtask text is appended to the conversation so far
BeginSubtask_appends ==
    /\ pc = "planned"
    /\ subtask < Len(plan)
    /\ subtask' = subtask + 1
    /\ messages' = IF messages = <<>>
                   THEN << [role |-> "system", content |-> SYSTEM_PROMPT],
                           [role |-> "user", content |-> plan[subtask + 1].description] >>
                   ELSE messages \o
                        << [role |-> "user", content |-> plan[subtask + 1].description] >>
    /\ iteration' = 0
    /\ pc' = "loop"
    /\ UNCHANGED <<use_planning, current_plan, plan, plan_shared, plan_request,
                   max_iterations, result, fs, llm_calls, dispatches, last_response,
                   last_dispatch>>
    /\ UNCHANGED gateVars
    /\ UNCHANGED ctxVars

\* faulty variant: every subtask starts with an empty permission record
BeginSubtask_new_gate ==
    /\ pc = "planned"
    /\ subtask < Len(plan)
    /\ subtask' = subtask + 1
    /\ messages' = << [role |-> "system", content |-> SYSTEM_PROMPT],
                      [role |-> "user", content |-> plan[subtask + 1].description] >>
    /\ iteration' = 0
    /\ pc' = "loop"
    /\ session_permissions' = NoPerms
    /\ UNCHANGED <<use_planning, current_plan, plan, plan_shared, plan_request,
                   max_iterations, result, fs, llm_calls, dispatches, last_response,
                   last_dispatch, auto_approve, gate_log>>
    /\ UNCHANGED ctxVars

\* run 140-143: the for loop takes the next subtask; _execute_subtask 173-182
BeginSubtask ==
    /\ pc = "planned"
    /\ subtask < Len(plan)
    /\ subtask' = subtask + 1
    /\ messages' = << [role |-> "system", content |-> SYSTEM_PROMPT],
                      [role |-> "user", content |-> plan[subtask + 1].description] >>
    /\ iteration' = 0
    /\ pc' = "loop"
    /\ UNCHANGED <<use_planning, current_plan, plan, plan_shared, plan_request,
                   max_iterations, result, fs, llm_calls, dispatches, last_response,
                   last_dispatch>>
    /\ UNCHANGED gateVars
    /\ UNCHANGED ctxVars

\* run 143-146: _execute_subtask returned, its value is dropped;
\* self.planner.mark_completed(subtask['id'])
MarkCompleted ==
    /\ use_planning
    /\ pc = "returned"
    /\ current_plan' = mark_completed(current_plan, plan[subtask].id)
    /\ plan' = IF plan_shared THEN current_plan' ELSE plan
    /\ pc' = "planned"
    /\ UNCHANGED <<use_planning, plan_shared, subtask, plan_request, messages,
                   max_iterations, iteration, result, fs, llm_calls, dispatches,
                   last_response, last_dispatch>>
    /\ UNCHANGED gateVars
    /\ UNCHANGED ctxVars

\* run 149: the for loop is over
AllSubtasksDone ==
    /\ pc = "planned"
    /\ subtask = Len(plan)
    /\ pc' = "done"
    /\ result' = [kind |-> "return", value |-> CompletionMessage]
    /\ UNCHANGED <<messages, max_iterations, iteration, fs, llm_calls, dispatches,
                   last_response, last_dispatch>>
    /\ UNCHANGED planVars
    /\ UNCHANGED gateVars
    /\ UNCHANGED ctxVars

PlanNext ==
    \/ \E task \in Tasks : Run(task)
    \/ \E task \in Tasks, response \in PlanResponses : CreatePlan(task, response)
    \/ BeginSubtask
    \/ \E response \in PlanModelResponses, env \in PlanEnvironments : Iterate(response, env)
    \/ LLMFails
    \/ Exhausted
    \/ MarkCompleted
    \/ AllSubtasksDone

SpecPlan == PlanInit /\ [][PlanNext]_vars

(***************************************************************************)
(* SpecPlanner: a TaskPlanner under any sequence of create_plan and         *)
(* mark_completed calls; plan is the list the latest create_plan returned. *)
(***************************************************************************)
PlannerInit ==
    /\ auto_approve = FALSE
    /\ session_permissions = NoPerms
    /\ gate_log = <<>>
    /\ max_tokens = AgentMaxTokens
    /\ keep_last_n = AgentKeepLastN
    /\ messages = <<>>
    /\ AgentIdle

\* the tasks create_plan is called with
PlannerTasks == Tasks \cup {Lit("add a README")}

\* planner.create_plan(task)
CallCreatePlan(task, response) ==
    /\ LET made == create_plan(task, response, current_plan)
       IN  /\ plan' = made.plan
           /\ current_plan' = made.current_plan
           /\ plan_shared' = made.shared
    /\ plan_request' = [task |-> task, response |-> response]
    /\ UNCHANGED <<use_planning, subtask, messages, max_iterations, pc, iteration,
                   result, fs, llm_calls, dispatches, last_response, last_dispatch>>
    /\ UNCHANGED gateVars
    /\ UNCHANGED ctxVars

\* the ids mark_completed is called with: those of a plan, and one of none
SubtaskIds == 1..3

\* planner.mark_completed(subtask_id)
CallMarkCompleted(subtask_id) ==
    /\ current_plan' = mark_completed(current_plan, subtask_id)
    /\ plan' = IF plan_shared THEN current_plan' ELSE plan
    /\ UNCHANGED <<use_planning, plan_shared, subtask, plan_request, messages,
                   max_iterations, pc, iteration, result, fs, llm_calls, dispatches,
                   last_response, last_dispatch>>
    /\ UNCHANGED gateVars
    /\ UNCHANGED ctxVars

PlannerNext ==
    \/ \E task \in PlannerTasks, response \in PlanResponses : CallCreatePlan(task, response)
    \/ \E subtask_id \in SubtaskIds : CallMarkCompleted(subtask_id)

SpecPlanner == PlannerInit /\ [][PlannerNext]_vars

(***************************************************************************)
(* SpecTools: execute_tool called with any name and any parsed arguments,  *)
(* on the Agent's gate and filesystem.                                     *)
(***************************************************************************)
UnknownToolNames == {"delete_file", "WRITE_FILE"}
ToolNames == TOOL_FUNCTIONS \cup UnknownToolNames
\* argument payloads that json.loads accepts: objects, a list, a string
ToolPayloads ==
    { Object(<<>>),
      Object(Member("filepath", "a.txt")),
      Object(Member("filepath", "b.txt")),
      WriteB.arguments,
      EditA.arguments,
      Object(Member("pattern", "*") \o <<P(",")>> \o Member("directory", ".")),
      Object(Member("pattern", "*")),
      Object(Member("query", "gate")),
      <<P("["), P("]")>>,
      <<S("a.txt")>> }
ToolArgValues == {json_loads(payload) : payload \in ToolPayloads}

ToolsInit ==
    /\ auto_approve = FALSE
    /\ session_permissions = NoPerms
    /\ gate_log = <<>>
    /\ max_tokens = AgentMaxTokens
    /\ keep_last_n = AgentKeepLastN
    /\ messages = <<>>
    /\ max_iterations = 0
    /\ pc = "idle"
    /\ iteration = 0
    /\ result = NoResult
    /\ fs = [q \in {"a.txt", "big.log"} |->
               IF q = "a.txt" THEN Lit("hi") ELSE Str("", BigFileChars)]
    /\ llm_calls = 0
    /\ dispatches = 0
    /\ last_response = NoResponse
    /\ last_dispatch = NoDispatch
    /\ use_planning = FALSE
    /\ NoPlan

ExecuteTool(tool_name, tool_args, env) ==
    LET d == execute_tool(tool_name, tool_args, session_permissions, fs, env)
    IN  /\ dispatches < MaxToolCalls
        /\ dispatches' = dispatches + 1
        /\ fs' = d.fs
        /\ session_permissions' = d.perms
        /\ last_dispatch' = [name |-> tool_name, gate |-> d.gate, text |-> d.text]
        /\ UNCHANGED <<auto_approve, gate_log, messages, max_iterations, pc, iteration,
                       result, llm_calls, last_response>>
        /\ UNCHANGED ctxVars
        /\ UNCHANGED planVars

ToolsNext ==
    \E tool_name \in ToolNames, tool_args \in ToolArgValues, env \in Environments :
        ExecuteTool(tool_name, tool_args, env)

SpecTools == ToolsInit /\ [][ToolsNext]_vars

(***************************************************************************)
(* Claims on the agent loop, checked under Spec.                           *)
(***************************************************************************)
\* every completion() call made so far returned a response
ModelAnswered == ~(pc = "raised" /\ result.error = "completion")
FirstCall(r) == r.tool_calls[1]
Unparseable(r) ==
    r.tool_calls # <<>> /\ ~json_loads(FirstCall(r).function.arguments).ok

\* C1: when the model answers with tool calls on iterations 1..k-1 and without
\* one on iteration k <= max_iterations, _execute_subtask returns that answer's
\* content after exactly k model calls and k-1 dispatches: no tool-call answer
\* makes it fail, and the tool-free answer ends it with these counts.
C1_ToolFreeAnswerIsReturned ==
    (iteration >= 1 /\ ModelAnswered) =>
        /\ pc # "raised"
        /\ last_response.tool_calls = <<>> =>
              /\ pc = "returned"
              /\ result = [kind |-> "return", value |-> last_response.content]
              /\ iteration <= max_iterations
              /\ llm_calls = iteration
              /\ dispatches = iteration - 1

\* C2: when the model answers every iteration with a tool call, the subtask
\* raises no error, comes to the exhaustion return, and returns the fixed
\* message after exactly max_iterations model calls and dispatches.
C2_ExhaustionAfterMaxIterations ==
    (ModelAnswered /\ (llm_calls >= 1 => last_response.tool_calls # <<>>)) =>
        /\ pc # "raised"
        /\ iteration <= max_iterations
        /\ (pc = "loop" /\ iteration = max_iterations) => ENABLED Exhausted
        /\ pc = "returned" =>
              /\ result = [kind |-> "return", value |-> ExhaustionMessage]
              /\ llm_calls = max_iterations
              /\ dispatches = max_iterations

\* C3: a first tool call whose payload cannot be parsed does not fail the
\* subtask: an error text is in the conversation as that call's observation.
C3_UnparseablePayloadIsObserved ==
    (llm_calls >= 1 /\ ModelAnswered /\ Unparseable(last_response)) =>
        /\ pc # "raised"
        /\ \E i \in 1..Len(messages) :
              /\ HasRole(messages[i], "tool")
              /\ messages[i].tool_call_id = FirstCall(last_response).id
              /\ Contains(messages[i].content.head, "Error")

MutatingTools == {"write_file", "edit_file"}

\* C4: a dispatched write_file or edit_file whose arguments bind asks the gate,
\* once and for its own kind; the filesystem changes only when the gate said
\* yes; when it returns false the result text contains "Permission denied", the
\* filesystem is as before, the text is appended as the observation of that
\* call, and the loop goes on.
C4_MutationsPassTheGate ==
    [][ (dispatches' = dispatches + 1 /\ last_dispatch'.name \in MutatingTools) =>
          LET d == last_dispatch'
              call == FirstCall(last_response')
          IN  /\ Binds(d.name, json_loads(call.function.arguments)) =>
                    Len(d.gate) = 1 /\ d.gate[1].operation = d.name
              /\ fs' # fs => d.gate # <<>> /\ d.gate[1].ret
              /\ (d.gate # <<>> /\ ~d.gate[1].raised /\ ~d.gate[1].ret) =>
                    /\ Contains(d.text.head, "Permission denied")
                    /\ fs' = fs
                    /\ pc' = "loop"
                    /\ messages'[Len(messages')] =
                          [role |-> "tool", content |-> d.text, tool_call_id |-> call.id]
      ]_vars

\* a write_file was just denied
C4_Witness ==
    /\ pc = "loop"
    /\ last_dispatch.name = "write_file"
    /\ last_dispatch.gate # <<>>
    /\ ~last_dispatch.gate[1].ret
    /\ HasRole(messages[Len(messages)], "tool")
    /\ Contains(messages[Len(messages)].content.head, "Permission denied")

(***************************************************************************)
(* Claims on the permission gate, checked under SpecGate.                  *)
(***************************************************************************)
IsRequest(e) == e.call = "request_permission"
IsReset(e) == e.call = "reset_session_permissions"
RequestFor(e, k) == IsRequest(e) /\ e.operation = k
\* the user was asked, approved, and accepted "remember"
Remembered(e) == IsRequest(e) /\ e.answers = <<TRUE, TRUE>>
\* the user was asked and denied
Denied(e) == IsRequest(e) /\ e.answers = <<FALSE>>
Prompted(e) == e.answers # <<>>
GateCalls == 1..Len(gate_log)
NoResetBetween(i, j) == \A m \in (i + 1)..(j - 1) : ~IsReset(gate_log[m])
NoRequestBetween(k, i, j) == \A m \in (i + 1)..(j - 1) : ~RequestFor(gate_log[m], k)

\* C5: once a request for kind K was approved with "remember" accepted, every
\* later request for K before a reset returns true without prompting, whatever
\* its path argument.
C5_RememberedKindIsNotPrompted ==
    \A i \in GateCalls, j \in GateCalls :
        ( /\ i < j
          /\ Remembered(gate_log[i])
          /\ RequestFor(gate_log[j], gate_log[i].operation)
          /\ NoResetBetween(i, j) )
        => gate_log[j].ret = TRUE /\ ~Prompted(gate_log[j])

C5_Witness ==
    \E i \in GateCalls, j \in GateCalls :
        /\ i < j
        /\ Remembered(gate_log[i])
        /\ RequestFor(gate_log[j], gate_log[i].operation)
        /\ gate_log[j].filepath # gate_log[i].filepath
        /\ NoResetBetween(i, j)

\* C6: a denial is never stored: the denied call returns false and leaves the
\* record as it was, the next request for the same kind prompts again, and no
\* record maps a kind to false.
C6_DenialNotMemoized ==
    /\ \A k \in DOMAIN session_permissions : session_permissions[k] = TRUE
    /\ \A i \in GateCalls :
          Denied(gate_log[i]) =>
            /\ gate_log[i].ret = FALSE
            /\ gate_log[i].after = gate_log[i].before
            /\ \A j \in GateCalls :
                  ( /\ i < j
                    /\ RequestFor(gate_log[j], gate_log[i].operation)
                    /\ NoRequestBetween(gate_log[i].operation, i, j) )
                  => Prompted(gate_log[j])

C6_Witness ==
    \E i \in GateCalls, j \in GateCalls :
        /\ i < j
        /\ Denied(gate_log[i])
        /\ RequestFor(gate_log[j], gate_log[i].operation)
        /\ NoRequestBetween(gate_log[i].operation, i, j)

\* the user was asked, approved, and declined "remember"
ApprovedOnce(e) == IsRequest(e) /\ e.answers = <<TRUE, FALSE>>

\* C30: a request for kind K changes the record only when the user approves
\* and accepts "remember", and then adds exactly K -> true; an approval with
\* "remember" declined returns true and stores nothing, so the next request
\* for K prompts again; the entries of every other kind are left alone, and
\* a request for a kind that is not in the record prompts whatever other
\* kinds are remembered.
C30_OnlyRememberChangesTheRecord ==
    \A i \in GateCalls :
        IsRequest(gate_log[i]) =>
            LET e == gate_log[i]
                K == e.operation
            IN  /\ e.after # e.before => Remembered(e)
                /\ Remembered(e) =>
                       /\ DOMAIN e.after = DOMAIN e.before \cup {K}
                       /\ e.after[K] = TRUE
                /\ \A k \in OperationKinds \ {K} :
                       /\ k \in DOMAIN e.after <=> k \in DOMAIN e.before
                       /\ k \in DOMAIN e.before => e.after[k] = e.before[k]
                /\ ApprovedOnce(e) =>
                       /\ e.ret = TRUE
                       /\ e.after = e.before
                       /\ \A j \in GateCalls :
                              (i < j /\ RequestFor(gate_log[j], K)
                                     /\ NoRequestBetween(K, i, j))
                              => Prompted(gate_log[j])
                /\ (~auto_approve /\ K \notin DOMAIN e.before) => Prompted(e)

\* with another kind remembered, a kind was approved without "remember" and
\* its next request prompted again
C30_Witness ==
    \E h \in GateCalls, i \in GateCalls, j \in GateCalls :
        /\ h < i /\ i < j
        /\ Remembered(gate_log[h])
        /\ ApprovedOnce(gate_log[i])
        /\ gate_log[i].operation # gate_log[h].operation
        /\ RequestFor(gate_log[j], gate_log[i].operation)
        /\ Prompted(gate_log[j])
        /\ gate_log[h].operation \in DOMAIN gate_log[j].before

\* C7: a reset empties the record, and the next request for a kind that was
\* remembered before the reset prompts again (gate not in auto-approve mode).
C7_ResetForgets ==
    \A i \in GateCalls :
        IsReset(gate_log[i]) =>
          /\ gate_log[i].after = NoPerms
          /\ (i = Len(gate_log) => session_permissions = NoPerms)
          /\ \A j \in GateCalls, k \in DOMAIN gate_log[i].before :
                ( /\ i < j
                  /\ ~auto_approve
                  /\ RequestFor(gate_log[j], k)
                  /\ NoRequestBetween(k, i, j) )
                => Prompted(gate_log[j])

C7_Witness ==
    \E i \in GateCalls, j \in GateCalls, k \in OperationKinds :
        /\ i < j
        /\ IsReset(gate_log[i])
        /\ k \in DOMAIN gate_log[i].before
        /\ RequestFor(gate_log[j], k)
        /\ NoRequestBetween(k, i, j)

\* C8: a gate built in auto-approve mode answers every request with true,
\* never prompts, and never changes the record.
C8_AutoApprove ==
    auto_approve =>
        \A i \in GateCalls :
            IsRequest(gate_log[i]) =>
              /\ gate_log[i].ret = TRUE
              /\ ~Prompted(gate_log[i])
              /\ gate_log[i].after = gate_log[i].before
              /\ gate_log[i].after = NoPerms

C8_Witness ==
    /\ auto_approve
    /\ \E i \in GateCalls, j \in GateCalls :
          /\ IsRequest(gate_log[i]) /\ IsRequest(gate_log[j])
          /\ gate_log[i].operation # gate_log[j].operation
          /\ gate_log[i].filepath # gate_log[j].filepath

(***************************************************************************)
(* Claims on the context window manager.                                   *)
(***************************************************************************)
\* C9: should_compact is true exactly when the estimate exceeds 0.8 * max_tokens
\* (0.8 * max_tokens as the rational 4 * max_tokens / 5, an integer or not).
C9_ShouldCompactIffOverEightyPercent ==
    HasRole(messages[1], "system") =>
        (should_compact(messages) <=> 5 * estimate_tokens(messages) > 4 * max_tokens)

\* the first estimate over a budget whose 80% is not an integer
C9_Witness ==
    /\ HasRole(messages[1], "system")
    /\ (4 * max_tokens) % 5 # 0
    /\ should_compact(messages)
    /\ 5 * (estimate_tokens(messages) - 1) < 4 * max_tokens

\* the characters of the text contents: a content that is None or absent has none
TextChars(msgs) ==
    SumLen([i \in 1..Len(msgs) |->
              IF "content" \in DOMAIN msgs[i] /\ msgs[i].content # None
              THEN py_len(msgs[i].content) ELSE 0])

\* C10: estimate_tokens is floor(T / 4), T the characters of the text contents,
\* a null or absent content counting for none.
C10_EstimateIsQuarterOfTextChars ==
    estimate_tokens(messages) = TextChars(messages) \div 4

\* C11: compacting a list that starts with a system message and is longer than
\* keep_last_n + 1 gives a list that starts with that system message and has a
\* user message second, wherever (or whether) the input has user messages.
C11_SystemThenUserAfterCompaction ==
    (HasRole(messages[1], "system") /\ Len(messages) > keep_last_n + 1) =>
        LET compacted == compact_messages(messages)
        IN  /\ compacted[1] = messages[1]
            /\ Len(compacted) >= 2
            /\ HasRole(compacted[2], "user")

\* C12: a list of at most keep_last_n + 1 messages is returned as it is, so
\* compacting it twice gives what compacting it once gives.
C12_ShortListIsUnchanged ==
    Len(messages) <= keep_last_n + 1 =>
        /\ compact_messages(messages) = messages
        /\ compact_messages(compact_messages(messages)) = compact_messages(messages)

\* a conversation with a tool exchange, exactly keep_last_n + 1 long
C12_Witness ==
    /\ Len(messages) = keep_last_n + 1
    /\ keep_last_n = MaxKeep
    /\ HasRole(messages[Len(messages)], "tool")
    /\ compact_messages(messages) = messages

(***************************************************************************)
(* Claims on what the loop sends to the model and on what it dispatches.   *)
(***************************************************************************)
\* C13: every list the loop passes to the model (the conversation as
\* should_compact and compact_messages leave it at the start of the iteration)
\* is estimated at no more than max_tokens, whatever the sizes of the tool results.
C13_PromptWithinBudget ==
    [][ llm_calls' = llm_calls + 1 =>
          estimate_tokens(CheckContext(messages)) <= max_tokens ]_vars

\* every tool message comes right after the assistant message that carries its
\* call, and that call alone
Paired(msgs) ==
    \A i \in 1..Len(msgs) :
        HasRole(msgs[i], "tool") =>
            /\ i > 1
            /\ HasRole(msgs[i - 1], "assistant")
            /\ Len(msgs[i - 1].tool_calls) = 1
            /\ msgs[i - 1].tool_calls[1].id = msgs[i].tool_call_id

\* C14: in every list the Agent's loop passes to the model (keep_last_n = 10),
\* after any number of iterations and compactions, each tool message is
\* directly preceded by the assistant message whose single tool call has the
\* tool message's tool_call_id.
C14_ToolMessagesKeepTheirCall ==
    [][ llm_calls' = llm_calls + 1 => Paired(CheckContext(messages)) ]_vars

\* compaction has dropped exchanges and the loop went on after it
C14_Witness ==
    /\ pc = "loop"
    /\ keep_last_n = AgentKeepLastN
    /\ Len(messages) < 2 + 2 * iteration
    /\ HasRole(messages[Len(messages)], "tool")
    /\ should_compact(messages)

\* C17: an iteration whose response proposes one or more tool calls dispatches
\* exactly one tool, the first proposed; the conversation passed to the model
\* grows by exactly two messages, the assistant message with null content and
\* that call alone, then the tool message with that call's id; no later call
\* is dispatched or recorded.
C17_OnlyFirstCallIsDispatched ==
    [][ (llm_calls' = llm_calls + 1 /\ ModelAnswered' /\ last_response'.tool_calls # <<>>) =>
          LET call == FirstCall(last_response')
          IN  /\ dispatches' = dispatches + 1
              /\ last_dispatch'.name = call.function.name
              /\ messages' = CheckContext(messages) \o
                    << [role |-> "assistant", content |-> None, tool_calls |-> <<call>>],
                       [role |-> "tool", content |-> last_dispatch'.text,
                        tool_call_id |-> call.id] >>
      ]_vars

(***************************************************************************)
(* Claims on the tool dispatcher, checked under SpecTools: execute_tool on  *)
(* the gate and filesystem of every reachable state.                       *)
(***************************************************************************)
\* execute_tool came back with a text
Returned(d) == "raised" \notin DOMAIN d /\ d.text.type = "str"
\* the text is an error text that names the tool
ErrorNaming(d, tool_name) ==
    Contains(d.text.head, "Error") /\ Contains(d.text.head, "'" \o tool_name \o "'")
\* the implementation of tool_name lets an error out on these arguments
ToolRaises(tool_name, tool_args, env) ==
    /\ Binds(tool_name, tool_args)
    /\ "raised" \in DOMAIN CallTool(tool_name, tool_args.value, session_permissions, fs, env)

\* C15: execute_tool with a name that is not registered returns, for any
\* arguments, an error text that contains the name; no tool runs (no gate
\* call, the record and the filesystem as before) and nothing is raised.
C15_UnknownToolIsAnErrorText ==
    \A tool_name \in UnknownToolNames, tool_args \in ToolArgValues, env \in Environments :
        LET d == execute_tool(tool_name, tool_args, session_permissions, fs, env)
        IN  /\ Returned(d)
            /\ ErrorNaming(d, tool_name)
            /\ d.gate = <<>>
            /\ d.perms = session_permissions
            /\ d.fs = fs

\* an unknown tool was called after a write went through
C15_Witness ==
    /\ last_dispatch.name \in UnknownToolNames
    /\ Contains(last_dispatch.text.head, last_dispatch.name)
    /\ "b.txt" \in DOMAIN fs

\* C16: execute_tool lets no error out: for a registered tool, arguments that
\* do not bind (one missing, one unexpected, not a mapping) and an error raised
\* by the implementation both come back as an error text naming the tool.
C16_NoFaultLeavesExecuteTool ==
    \A tool_name \in TOOL_FUNCTIONS, tool_args \in ToolArgValues, env \in Environments :
        LET d == execute_tool(tool_name, tool_args, session_permissions, fs, env)
        IN  /\ Returned(d)
            /\ (~Binds(tool_name, tool_args) \/ ToolRaises(tool_name, tool_args, env)) =>
                  ErrorNaming(d, tool_name)

\* the prompt of a write_file failed and execute_tool returned the error
C16_Witness ==
    /\ last_dispatch.name = "write_file"
    /\ last_dispatch.gate # <<>>
    /\ last_dispatch.gate[1].raised
    /\ Contains(last_dispatch.text.head, "Error executing tool 'write_file'")

\* the arguments are a mapping with the names the tool's schema requires and
\* no other
ExactlyRequired(tool_name, tool_args) ==
    tool_args.type = "dict" /\ DOMAIN tool_args.value = SchemaRequired(tool_name)

\* C28: for every tool of the catalog, a call with exactly the arguments its
\* declared schema lists as required is bound and run by execute_tool: the
\* answer is no "Invalid arguments" error.
C28_SchemaRequiredArgumentsBind ==
    \A tool_name \in TOOL_FUNCTIONS, tool_args \in ToolArgValues, env \in Environments :
        ExactlyRequired(tool_name, tool_args) =>
            /\ Binds(tool_name, tool_args)
            /\ ~Contains(execute_tool(tool_name, tool_args, session_permissions, fs,
                                      env).text.head, "Invalid arguments")

(***************************************************************************)
(* Claims on failures of the model and on planning, checked under SpecPlan. *)
(***************************************************************************)
\* a completion() call of _call_llm failed
CompletionFailed == result.kind = "raise" /\ result.error = "completion"

\* C18: a model call that fails inside _execute_subtask ends the run with that
\* error: the failing step dispatches nothing and changes no plan, and after it
\* nothing happens any more, no model call, no dispatch, no further subtask; in
\* planning mode the subtask under way and the later ones stay pending.
C18_TransportFailureEndsTheRun ==
    /\ [](CompletionFailed =>
            /\ pc = "raised"
            /\ ~ENABLED PlanNext
            /\ use_planning =>
                  /\ subtask \in 1..Len(plan)
                  /\ \A i \in subtask..Len(plan) : plan[i].status = "pending"
                  /\ \A i \in 1..Len(current_plan) :
                        current_plan[i].id >= plan[subtask].id =>
                            current_plan[i].status = "pending")
    /\ [][ (CompletionFailed' /\ ~CompletionFailed) =>
              /\ llm_calls' = llm_calls + 1
              /\ dispatches' = dispatches
              /\ fs' = fs
              /\ UNCHANGED planVars ]_vars

\* the model fails in the second subtask, after the first was completed
C18_Witness ==
    /\ CompletionFailed
    /\ use_planning
    /\ subtask = 2
    /\ plan[1].status = "completed"
    /\ dispatches >= 1

\* the planning call failed, or its answer is no JSON text or no JSON value to
\* iterate over
PlanningFails(response) ==
    \/ response.kind \in {"error", "none"}
    \/ /\ response.kind = "text"
       /\ LET parsed == json_text(response_text(response.content))
          IN  ~parsed.ok \/ ~Iterable(parsed)

\* C19: when the planning call fails or its answer cannot be parsed, create_plan
\* raises nothing and returns one subtask, id 1, pending, described by the
\* task text itself; run goes on to execute that subtask.
C19_PlanningFailureFallsBack ==
    (use_planning /\ pc # "idle" /\ PlanningFails(plan_request.response)) =>
        /\ Len(plan) = 1
        /\ plan[1].id = 1
        /\ plan[1].description = plan_request.task
        /\ (pc = "planned" /\ subtask = 0) =>
              /\ plan[1].status = "pending"
              /\ ENABLED BeginSubtask
        /\ pc \in {"loop", "returned", "raised"} =>
              /\ subtask = 1
              /\ messages[1] = [role |-> "system", content |-> SYSTEM_PROMPT]
              /\ messages[2] = [role |-> "user", content |-> plan_request.task]

\* the planner answered with a text that is no plan, and the task ran as the
\* one subtask
C19_Witness ==
    /\ use_planning
    /\ plan_request.response.kind = "text"
    /\ PlanningFails(plan_request.response)
    /\ pc = "returned"
    /\ dispatches >= 1
    /\ messages[2].content = plan_request.task

\* C20: with planning, run executes the subtasks of the returned plan in list
\* order, one at a time, each marked completed after its cycle and before the
\* next begins; when run returns the completion message every subtask of that
\* plan, a fallback plan too, is completed.
C20_SubtasksCompletedInOrder ==
    (use_planning /\ pc # "idle") =>
        /\ subtask \in 0..Len(plan)
        /\ pc \in {"loop", "returned", "raised"} =>
              /\ subtask >= 1
              /\ messages[2] = [role |-> "user", content |-> plan[subtask].description]
              /\ \A i \in 1..(subtask - 1) : plan[i].status = "completed"
              /\ \A i \in subtask..Len(plan) : plan[i].status = "pending"
        /\ pc = "planned" =>
              /\ \A i \in 1..subtask : plan[i].status = "completed"
              /\ \A i \in (subtask + 1)..Len(plan) : plan[i].status = "pending"
        /\ pc = "done" =>
              /\ result = [kind |-> "return", value |-> CompletionMessage]
              /\ subtask = Len(plan)
              /\ \A i \in 1..Len(plan) : plan[i].status = "completed"

(***************************************************************************)
(* Claims on the planner alone, checked under SpecPlanner.                 *)
(***************************************************************************)
\* C21: after any create_plan and mark_completed calls, is_plan_complete is
\* true exactly when every subtask of the plan the latest create_plan returned
\* is completed; so it is false right after a non-empty plan, a fallback plan
\* too, was returned.
C21_CompleteIffReturnedPlanCompleted ==
    plan_request # NoPlanRequest =>
        (is_plan_complete(current_plan) <=>
            \A i \in 1..Len(plan) : plan[i].status = "completed")

(***************************************************************************)
(* Claims on a run with or without planning, checked under SpecPlan.       *)
(***************************************************************************)
\* the text _execute_subtask was called with: the subtask's description in
\* planning mode, the task otherwise
SubtaskTexts ==
    IF use_planning THEN {plan[subtask].description} ELSE Tasks

\* C22: the conversation sent in the first model call of every
\* _execute_subtask is the system prompt followed by one user message with the
\* subtask text, and nothing of an earlier subtask.
C22_FirstCallSeesOnlyPromptAndSubtask ==
    [][(llm_calls' = llm_calls + 1 /\ iteration = 0) =>
          \E text \in SubtaskTexts :
              CheckContext(messages) =
                  << [role |-> "system", content |-> SYSTEM_PROMPT],
                     [role |-> "user", content |-> text] >>]_vars

\* the second subtask made its first model call after the first subtask had
\* left tool messages in the conversation
C22_Witness ==
    /\ use_planning
    /\ subtask = 2
    /\ iteration = 1
    /\ dispatches >= 2
    /\ Len(messages) = 4
    /\ messages[2] = [role |-> "user", content |-> plan[2].description]

\* C27: the permission record is the run's, not one subtask's: no step of a
\* planning run, the start of a subtask included, takes a kind out of it, and
\* a write_file or edit_file dispatch of a kind in the record proceeds
\* without a prompt, so a kind remembered in one subtask is not asked about
\* in any later one.
C27_RecordOutlivesSubtasks ==
    [][use_planning =>
          /\ \A k \in DOMAIN session_permissions :
                 k \in DOMAIN session_permissions' /\ session_permissions'[k] = TRUE
          /\ (dispatches' = dispatches + 1 /\
                  last_dispatch'.name \in DOMAIN session_permissions)
                 => /\ Len(last_dispatch'.gate) = 1
                    /\ last_dispatch'.gate[1].operation = last_dispatch'.name
                    /\ last_dispatch'.gate[1].answers = <<>>
                    /\ last_dispatch'.gate[1].ret = TRUE
                    /\ ~last_dispatch'.gate[1].raised]_vars

\* the first dispatch of the second subtask writes a file without a prompt:
\* the kind was remembered during the first subtask
C27_Witness ==
    /\ use_planning
    /\ subtask = 2
    /\ iteration = 1
    /\ pc = "loop"
    /\ last_dispatch.name = "write_file"
    /\ last_dispatch.gate[1].answers = <<>>
    /\ last_dispatch.gate[1].ret = TRUE
    /\ "b.txt" \in DOMAIN fs

\* C29: in planning mode a subtask that ends by exhausting its iterations does
\* not stop the run: it is marked completed like any other, the next subtask
\* of the plan is started whatever text the cycle returned, and after the
\* last one run returns the fixed completion message.
C29_ExhaustedSubtaskDoesNotStopTheRun ==
    /\ [](use_planning /\ pc = "done" =>
             /\ subtask = Len(plan)
             /\ result = [kind |-> "return", value |-> CompletionMessage])
    /\ [][(use_planning /\ pc = "returned") =>
             /\ pc' = "planned"
             /\ subtask' = subtask
             /\ result.value = ExhaustionMessage => plan'[subtask].status = "completed"]_vars
    /\ [][(use_planning /\ pc = "planned") =>
             IF subtask < Len(plan)
             THEN /\ pc' = "loop"
                  /\ subtask' = subtask + 1
                  /\ messages'[2] = [role |-> "user",
                                     content |-> plan[subtask + 1].description]
             ELSE pc' = "done"]_vars

(***************************************************************************)
(* Claims on what a run without planning returns, checked under Spec.      *)
(***************************************************************************)
\* C23: whenever _execute_subtask returns normally, the value it returns is a
\* text string, never null, also when the response has neither a tool call
\* nor a content.
C23_ReturnsText ==
    pc = "returned" => (result.kind = "return" /\ result.value.type = "str")

(***************************************************************************)
(* Claims on compact_messages alone, checked under SpecCtx.                *)
(***************************************************************************)
RECURSIVE IsSubsequence(_, _)
\* a is b with some messages left out, the others in their order
IsSubsequence(a, b) ==
    IF a = <<>> THEN TRUE
    ELSE IF b = <<>> THEN FALSE
    ELSE IF Head(a) = Head(b) THEN IsSubsequence(Tail(a), Tail(b))
    ELSE IsSubsequence(a, Tail(b))

\* the last n messages of q, none when n = 0
Suffix(q, n) == SubSeq(q, Len(q) - Min({n, Len(q)}) + 1, Len(q))

\* C24: for every keep_last_n >= 0, 0 included, the result of
\* compact_messages is an order-preserving subsequence of its input, so never
\* longer and with no message more often, and its last keep_last_n messages
\* are the input's.
C24_CompactionOnlyRemoves ==
    LET compacted == compact_messages(messages)
    IN  /\ IsSubsequence(compacted, messages)
        /\ Len(compacted) <= Len(messages)
        /\ Suffix(compacted, keep_last_n) = Suffix(messages, keep_last_n)

\* C25: for every list and every keep_last_n >= 0, compacting the result of
\* compact_messages again gives the same list.
C25_CompactionIsIdempotent ==
    compact_messages(compact_messages(messages)) = compact_messages(messages)

(***************************************************************************)
(* Claims on a long run of the Agent, checked under SpecLong.              *)
(***************************************************************************)
\* C26: in every model call of an _execute_subtask cycle, after any number of
\* tool iterations and compactions, the list sent starts with the system
\* prompt and has the user message with the subtask's task text second.
C26_TaskStaysSecond ==
    [][llm_calls' = llm_calls + 1 =>
          LET sent == CheckContext(messages)
          IN  /\ Len(sent) >= 2
              /\ sent[1] = [role |-> "system", content |-> SYSTEM_PROMPT]
              /\ \E text \in SubtaskTexts :
                     sent[2] = [role |-> "user", content |-> text]]_vars

\* the final answer was given on a conversation that compaction had shortened
C26_Witness ==
    /\ pc = "returned"
    /\ result.kind = "return"
    /\ llm_calls = dispatches + 1
    /\ Len(messages) < 2 + 2 * dispatches
    /\ messages[2].role = "user"
====
